---- MODULE Spec2Model ----
(***************************************************************************)
(* Model of big_num_math (src/src/lib.rs): decimal places rows, their      *)
(* constructors and the arithmetic on them (rel, add, sub, mul, pow,       *)
(* divrem) with the column routines they share.                            *)
(*                                                                         *)
(* A row (PlacesRow.row, Vec<u8>) is a sequence of places, ones first.     *)
(* Rust indexes from 0, TLA+ sequences from 1: the code's row[i] is        *)
(* row[i + 1] here; all index variables keep the code's 0-based values.    *)
(*                                                                         *)
(* The library has no state of its own.  The state machine is a session of *)
(* a caller: it constructs two rows a and b with the public constructors,  *)
(* applies one public operation to them, and may store a returned row back *)
(* into a or b before the next operation.                                  *)
(***************************************************************************)
EXTENDS Integers, Sequences, FiniteSets

VARIABLES pc, a, b, op, res, diffrem, diffrem_populated, ratio

vars == <<pc, a, b, op, res, diffrem, diffrem_populated, ratio>>

\* the locals of substraction
locals == <<diffrem, diffrem_populated, ratio>>

(***************************************************************************)
(* Bounds of the model.                                                    *)
(***************************************************************************)
\* greatest value of row a (dividend, minuend, base, first addend/factor)
MaxA == 190
\* greatest value of row b (divisor, subtrahend, second addend/factor)
MaxB == 95
\* greatest exponent handed to pow
MaxPow == 3
\* longest Vec<u8> handed to new_from_vec
MaxVecLen == 3
\* longest &str (in chars) handed to new_from_str
MaxStrLen == 3

(***************************************************************************)
(* Machine integer widths.                                                 *)
(***************************************************************************)
\* u8 arithmetic is modulo 2^8
U8 == 256
\* u16 arithmetic is modulo 2^16
U16 == 65536

(***************************************************************************)
(* Digit carry primitive.                                                  *)
(***************************************************************************)
\* ones that leaves the takeover it finds out of the total: `let total = num`
ones_num_only(num, takeover) ==
    LET total == num % U8
        takeover_val == total \div 10
    IN  [place |-> (total - takeover_val * 10) % U8, tens |-> takeover_val]

\* fn ones(num: u8, takeover_ref: &mut u8) -> u8; place is what it returns,
\* tens the value it leaves in *takeover_ref
ones(num, takeover) ==
    LET total == (num + takeover) % U8
        takeover_val == total \div 10
    IN  [place |-> (total - takeover_val * 10) % U8, tens |-> takeover_val]

(***************************************************************************)
(* Row representation.                                                     *)
(***************************************************************************)
\* the `while let Some(num) = rev.next()` loop of truncate_leading_raw:
\* count of most-significant places equal to lead
RECURSIVE trun_count(_, _)
trun_count(row, lead) ==
    IF row = <<>> THEN 0
    ELSE IF row[Len(row)] = lead
         THEN 1 + trun_count(SubSeq(row, 1, Len(row) - 1), lead)
         ELSE 0

\* truncate_leading_raw without its `if row_len == trun { trun -= 1 }`
truncate_leading_raw_all(row, lead) ==
    SubSeq(row, 1, Len(row) - trun_count(row, lead))

truncate_leading_raw(row, lead) ==
    LET trun0 == trun_count(row, lead)
        row_len == Len(row)
        trun == IF row_len = trun0 THEN trun0 - 1 ELSE trun0
    IN  SubSeq(row, 1, row_len - trun)

\* shrink_to_fit changes capacity only
shrink_to_fit_raw(row) == truncate_leading_raw(row, 0)

zero == <<0>>

\* new_from_vec's loop when it does not return at the first place > 9 but
\* keeps the last one it meets
RECURSIVE new_from_vec_scan_last(_, _)
new_from_vec_scan_last(row, inx) ==
    IF inx >= Len(row) THEN Len(row)
    ELSE LET later == new_from_vec_scan_last(row, inx + 1)
         IN  IF later < Len(row) THEN later
             ELSE IF row[inx + 1] > 9 THEN inx ELSE Len(row)

\* the `while let Some((inx, num)) = enumerator.next()` loop of new_from_vec:
\* the first index from inx on whose place is > 9, Len(row) when there is none
RECURSIVE new_from_vec_scan(_, _)
new_from_vec_scan(row, inx) ==
    IF inx >= Len(row) THEN Len(row)
    ELSE IF row[inx + 1] > 9 THEN inx
         ELSE new_from_vec_scan(row, inx + 1)

\* Result<Self, Option<usize>>: ok, the row; else some says Err(Some(inx))
new_from_vec(row) ==
    IF Len(row) = 0
    THEN [ok |-> FALSE, some |-> FALSE, inx |-> 0, row |-> <<>>]
    ELSE LET bad == new_from_vec_scan(row, 0)
         IN  IF bad < Len(row)
             THEN [ok |-> FALSE, some |-> TRUE, inx |-> bad, row |-> <<>>]
             ELSE [ok |-> TRUE, some |-> FALSE, inx |-> 0,
                   row |-> truncate_leading_raw(row, 0)]

RECURSIVE new_from_num(_)
new_from_num(num) ==
    LET d == num % 10
        rest == num \div 10
    IN  IF rest = 0 THEN <<d % U8>> ELSE <<d % U8>> \o new_from_num(rest)

(***************************************************************************)
(* A &str is a sequence of chars.  A char is one of the ten ASCII digits,  *)
(* "x" (some ASCII char that is no digit) or "e2" (some char whose UTF-8   *)
(* encoding takes two bytes, no digit either).                             *)
(***************************************************************************)
\* char::len_utf8
len_utf8(c) == IF c = "e2" THEN 2 ELSE 1

\* str::len: length in bytes
RECURSIVE str_len(_)
str_len(s) == IF s = <<>> THEN 0 ELSE len_utf8(Head(s)) + str_len(Tail(s))

\* str::trim_start_matches('0')
RECURSIVE trim_start_matches_0(_)
trim_start_matches_0(s) ==
    IF s # <<>> /\ Head(s) = "0" THEN trim_start_matches_0(Tail(s)) ELSE s

\* char::is_ascii_digit
is_ascii_digit(c) == c \in {"0", "1", "2", "3", "4", "5", "6", "7", "8", "9"}

\* char::to_digit(10) of an ASCII digit
to_digit(c) ==
    CASE c = "0" -> 0 [] c = "1" -> 1 [] c = "2" -> 2 [] c = "3" -> 3
      [] c = "4" -> 4 [] c = "5" -> 5 [] c = "6" -> 6 [] c = "7" -> 7
      [] c = "8" -> 8 [] c = "9" -> 9

\* the `for (c, sc) in s.chars().rev().zip(row.spare_capacity_mut())` loop of
\* new_from_str: k chars of s are still to be visited (from the back), slots
\* spare slots are left, inx is the running index, row the places written
RECURSIVE new_from_str_loop(_, _, _, _, _)
new_from_str_loop(s, k, slots, inx, row) ==
    IF k = 0 \/ slots = 0
    THEN [ok |-> TRUE, some |-> FALSE, inx |-> 0, row |-> row]
    ELSE LET c == s[k]
         IN  IF is_ascii_digit(c)
             THEN new_from_str_loop(s, k - 1, slots - 1, inx - 1,
                                    Append(row, to_digit(c) % U8))
             ELSE [ok |-> FALSE, some |-> TRUE, inx |-> inx - 1, row |-> <<>>]

\* Result<Self, Option<usize>> as for new_from_vec.  `row.set_len(s_len)` sets
\* the length to the byte length of the trimmed text; the loop has written one
\* place per char, and a text that passes the loop is all ASCII, so both agree.
new_from_str(s) ==
    LET orig_s_len == str_len(s)
        t == trim_start_matches_0(s)
        s_len == str_len(t)
    IN  IF orig_s_len = 0
        THEN [ok |-> FALSE, some |-> FALSE, inx |-> 0, row |-> <<>>]
        ELSE IF s_len = 0
             THEN [ok |-> TRUE, some |-> FALSE, inx |-> 0, row |-> <<0>>]
             ELSE new_from_str_loop(t, Len(t), s_len, orig_s_len, <<>>)

\* the `match i` of to_number; any other place panics
digit(i) ==
    CASE i = 0 -> "0" [] i = 1 -> "1" [] i = 2 -> "2" [] i = 3 -> "3"
      [] i = 4 -> "4" [] i = 5 -> "5" [] i = 6 -> "6" [] i = 7 -> "7"
      [] i = 8 -> "8" [] i = 9 -> "9"

\* to_number that walks the row from the ones: `for i in row.iter()`
RECURSIVE to_number_from_ones(_)
to_number_from_ones(row) ==
    IF row = <<>> THEN <<>>
    ELSE <<digit(Head(row))>> \o to_number_from_ones(Tail(row))

\* pub fn to_number(&self) -> String: `for i in row.iter().rev()` pushes one
\* char per place, the most significant place first
RECURSIVE to_number(_)
to_number(row) ==
    IF row = <<>> THEN <<>>
    ELSE <<digit(row[Len(row)])>> \o to_number(SubSeq(row, 1, Len(row) - 1))

(***************************************************************************)
(* Comparator.                                                             *)
(***************************************************************************)
\* rel's loop scanning from the ones upwards: `for inx in 0..r2_len`
RECURSIVE rel_scan_from_ones(_, _, _)
rel_scan_from_ones(r1, r2, k) ==
    IF k = 0 THEN "Equal"
    ELSE LET inx == Len(r2) - k
         IN  IF r1[inx + 1] > r2[inx + 1] THEN "Greater"
             ELSE IF r1[inx + 1] < r2[inx + 1] THEN "Lesser"
                  ELSE rel_scan_from_ones(r1, r2, k - 1)

\* the `for inx in (0..r2_len).rev()` loop of rel; k = inx + 1
RECURSIVE rel_scan(_, _, _)
rel_scan(r1, r2, k) ==
    IF k = 0 THEN "Equal"
    ELSE IF r1[k] > r2[k] THEN "Greater"
         ELSE IF r1[k] < r2[k] THEN "Lesser"
              ELSE rel_scan(r1, r2, k - 1)

rel(r1, r2) ==
    LET r1_len == Len(r1)
        r2_len == Len(r2)
    IN  IF r1_len > r2_len THEN "Greater"
        ELSE IF r1_len = r2_len THEN rel_scan(r1, r2, r2_len)
             ELSE "Lesser"

(***************************************************************************)
(* Column addition.                                                        *)
(***************************************************************************)
\* Option<&Vec<u8>>
Some(row) == [some |-> TRUE, row |-> row]
None == [some |-> FALSE, row |-> <<>>]

\* the `loop` of addition.  With addend_2 = None the second addend is read
\* through the pointer into sum taken at entry, at indices below addend_2_len,
\* the length of sum at entry; sum is not reallocated before such a read (no
\* push precedes it), so the read yields the place sum holds at that index.
RECURSIVE addition_loop(_, _, _, _, _, _, _)
addition_loop(addend_1, addend_2, addend_2_len, sum, takeover, addend_1_inx, addend_2_inx) ==
    LET addend_1_available == addend_1_inx < Len(addend_1)
    IN  IF ~addend_1_available /\ takeover = 0
        THEN sum
        ELSE LET addend_1_num == IF addend_1_available
                                 THEN addend_1[addend_1_inx + 1]
                                 ELSE 0
                 addend_2_num == IF addend_2_inx < addend_2_len
                                 THEN IF addend_2.some
                                      THEN addend_2.row[addend_2_inx + 1]
                                      ELSE sum[addend_2_inx + 1]
                                 ELSE 0
                 o == ones((addend_2_num + addend_1_num) % U8, takeover)
                 sum2 == IF addend_2_inx < Len(sum)
                         THEN [sum EXCEPT ![addend_2_inx + 1] = o.place]
                         ELSE Append(sum, o.place)
             IN  addition_loop(addend_1, addend_2, addend_2_len, sum2, o.tens,
                               addend_1_inx + 1, addend_2_inx + 1)

\* addition whose loop ends with addend_1, a last takeover dropped:
\* `if !addend_1_available { break; }`
addition_no_last_takeover(addend_1, addend_2, sum, offset) ==
    LET addend_2_len == IF addend_2.some THEN Len(addend_2.row) ELSE Len(sum)
        full == addition_loop(addend_1, addend_2, addend_2_len, sum, 0, 0, offset)
        keep == IF Len(sum) > offset + Len(addend_1)
                THEN Len(sum) ELSE offset + Len(addend_1)
    IN  IF Len(full) > keep THEN SubSeq(full, 1, keep) ELSE full

\* fn addition(addend_1, addend_2, sum: &mut Vec<u8>, offset); returns sum
addition(addend_1, addend_2, sum, offset) ==
    LET addend_2_len == IF addend_2.some THEN Len(addend_2.row) ELSE Len(sum)
    IN  addition_loop(addend_1, addend_2, addend_2_len, sum, 0, 0, offset)

(***************************************************************************)
(* The same routines with what happens inside a call kept beside its       *)
(* result.  obs gathers, over the calls made so far:                       *)
(*   ones:  <<pass, num, takeover, place, tens>> for every call of ones:   *)
(*          the pass it is made in, the u8 sum or product num it is given  *)
(*          (before the cast to u8), the takeover it finds, the place it   *)
(*          returns and the takeover it leaves;                            *)
(*   reads: <<addend_2_inx, addend_2_len, pushes>> for every read through  *)
(*          the pointer into sum that addition takes at entry, pushes      *)
(*          being the count of sum.push calls made before the read;        *)
(*   adds:  <<len(addend_1), len(sum) at entry, offset, len(sum) at        *)
(*          return>> for every call of addition;                           *)
(*   lens:  <<buffer, len, reserved>> for sum of add and for i_product and *)
(*          i_sum of mulmul after every call that grows them, with the     *)
(*          capacity reserved for the buffer.                              *)
(***************************************************************************)
NoObs == [ones |-> {}, reads |-> {}, adds |-> {}, lens |-> {}]

\* the `loop` of addition whose `if let Some(refer) = sum.get_mut(..)` never
\* matches: every place is pushed
RECURSIVE addition_loop_obs_push(_, _, _, _, _, _, _, _, _)
addition_loop_obs_push(addend_1, addend_2, addend_2_len, sum, takeover, addend_1_inx, addend_2_inx, pushes, obs) ==
    LET addend_1_available == addend_1_inx < Len(addend_1)
    IN  IF ~addend_1_available /\ takeover = 0
        THEN [sum |-> sum, obs |-> obs]
        ELSE LET addend_1_num == IF addend_1_available
                                 THEN addend_1[addend_1_inx + 1]
                                 ELSE 0
                 read == addend_2_inx < addend_2_len
                 addend_2_num == IF read
                                 THEN IF addend_2.some
                                      THEN addend_2.row[addend_2_inx + 1]
                                      ELSE sum[addend_2_inx + 1]
                                 ELSE 0
                 num == addend_2_num + addend_1_num
                 o == ones(num % U8, takeover)
                 obs2 == [obs EXCEPT
                     !.ones = @ \cup {<<"addition", num, takeover, o.place, o.tens>>},
                     !.reads = IF read /\ ~addend_2.some
                               THEN @ \cup {<<addend_2_inx, addend_2_len, pushes>>}
                               ELSE @]
             IN  addition_loop_obs_push(addend_1, addend_2, addend_2_len,
                                        Append(sum, o.place), o.tens,
                                        addend_1_inx + 1, addend_2_inx + 1,
                                        pushes + 1, obs2)

\* the `loop` of addition, as addition_loop; pushes counts the sum.push calls
\* made so far in this call
RECURSIVE addition_loop_obs(_, _, _, _, _, _, _, _, _)
addition_loop_obs(addend_1, addend_2, addend_2_len, sum, takeover, addend_1_inx, addend_2_inx, pushes, obs) ==
    LET addend_1_available == addend_1_inx < Len(addend_1)
    IN  IF ~addend_1_available /\ takeover = 0
        THEN [sum |-> sum, obs |-> obs]
        ELSE LET addend_1_num == IF addend_1_available
                                 THEN addend_1[addend_1_inx + 1]
                                 ELSE 0
                 read == addend_2_inx < addend_2_len
                 addend_2_num == IF read
                                 THEN IF addend_2.some
                                      THEN addend_2.row[addend_2_inx + 1]
                                      ELSE sum[addend_2_inx + 1]
                                 ELSE 0
                 num == addend_2_num + addend_1_num
                 o == ones(num % U8, takeover)
                 push == addend_2_inx >= Len(sum)
                 sum2 == IF push
                         THEN Append(sum, o.place)
                         ELSE [sum EXCEPT ![addend_2_inx + 1] = o.place]
                 obs2 == [obs EXCEPT
                     !.ones = @ \cup {<<"addition", num, takeover, o.place, o.tens>>},
                     !.reads = IF read /\ ~addend_2.some
                               THEN @ \cup {<<addend_2_inx, addend_2_len, pushes>>}
                               ELSE @]
             IN  addition_loop_obs(addend_1, addend_2, addend_2_len, sum2, o.tens,
                                   addend_1_inx + 1, addend_2_inx + 1,
                                   IF push THEN pushes + 1 ELSE pushes, obs2)

\* addition that starts writing behind the places sum holds:
\* `let mut addend_2_inx = addend_2_len`
addition_obs_appending(addend_1, addend_2, sum, offset, obs) ==
    LET addend_2_len == IF addend_2.some THEN Len(addend_2.row) ELSE Len(sum)
        l == addition_loop_obs(addend_1, addend_2, addend_2_len, sum, 0, 0,
                               addend_2_len, 0, obs)
    IN  [sum |-> l.sum,
         obs |-> [l.obs EXCEPT
                     !.adds = @ \cup {<<Len(addend_1), Len(sum), offset, Len(l.sum)>>}]]

\* fn addition, as addition; returns sum and what was observed
addition_obs(addend_1, addend_2, sum, offset, obs) ==
    LET addend_2_len == IF addend_2.some THEN Len(addend_2.row) ELSE Len(sum)
        l == addition_loop_obs(addend_1, addend_2, addend_2_len, sum, 0, 0, offset,
                               0, obs)
    IN  [sum |-> l.sum,
         obs |-> [l.obs EXCEPT
                     !.adds = @ \cup {<<Len(addend_1), Len(sum), offset, Len(l.sum)>>}]]

\* pub fn add, as add; sum is created by Vec::with_capacity(addend.len() + 1)
add_obs(addend1, addend2) ==
    LET r1 == addend1
        r2 == addend2
        addend == IF Len(r1) > Len(r2) THEN r1 ELSE r2
        augend == IF Len(r1) > Len(r2) THEN r2 ELSE r1
        s == addition_obs(addend, Some(augend), <<>>, 0, NoObs)
    IN  [sum |-> s.sum,
         obs |-> [s.obs EXCEPT
                     !.lens = @ \cup {<<"sum", Len(s.sum), Len(addend) + 1>>}]]

\* add that takes addend1 as the primary addend whatever the lengths
add_first_primary(addend1, addend2) == addition(addend1, Some(addend2), <<>>, 0)

add(addend1, addend2) ==
    LET r1 == addend1
        r2 == addend2
        addend == IF Len(r1) > Len(r2) THEN r1 ELSE r2
        augend == IF Len(r1) > Len(r2) THEN r2 ELSE r1
    IN  addition(addend, Some(augend), <<>>, 0)

(***************************************************************************)
(* Scaled product and the repeated accumulation engine.                    *)
(***************************************************************************)
\* the `for &num in mcand` loop of product and its final push
RECURSIVE product_loop(_, _, _, _, _)
product_loop(mpler, mcand, inx, takeover, product_row) ==
    IF inx >= Len(mcand)
    THEN IF takeover # 0 THEN Append(product_row, takeover) ELSE product_row
    ELSE LET prod == (mpler * mcand[inx + 1]) % U8
             o == ones(prod, takeover)
         IN  product_loop(mpler, mcand, inx + 1, o.tens,
                          Append(product_row, o.place))

\* fn product(mpler: u8, mcand, product: &mut Vec<u8>); returns product
product(mpler, mcand, product_row) == product_loop(mpler, mcand, 0, 0, product_row)

\* the `for offset in 0..mpler_len` loop of mulmul; i_product is empty at
\* every turn (Vec::with_capacity(0), then cleared after each use)
RECURSIVE mulmul_offsets(_, _, _, _)
mulmul_offsets(mpler, mcand, i_sum, offset) ==
    IF offset >= Len(mpler)
    THEN i_sum
    ELSE LET i_product == product(mpler[offset + 1], mcand, <<>>)
         IN  mulmul_offsets(mpler, mcand,
                            addition(i_product, None, i_sum, offset), offset + 1)

\* the outer `loop` of mulmul.  On `cntr == times` mcand takes i_sum and the
\* loop ends; otherwise the cleared mcand becomes the next i_sum.
RECURSIVE mulmul_loop(_, _, _, _, _)
mulmul_loop(mpler, mcand, i_sum, cntr, times) ==
    LET i_sum2 == mulmul_offsets(mpler, mcand, i_sum, 0)
        cntr2 == (cntr + 1) % U16
    IN  IF cntr2 = times
        THEN [row |-> i_sum2, cntr |-> cntr2]
        ELSE mulmul_loop(mpler, i_sum2, <<>>, cntr2, times)

\* mulmul without its final shrink_to_fit_raw
mulmul_no_shrink(row1, row2, times) ==
    LET l == mulmul_loop(row1, row2, <<>>, 0, times)
    IN  [row |-> l.row, cntr |-> l.cntr]

\* fn mulmul(row1, row2, times: u16) -> PlacesRow; cntr is the value of the
\* loop counter when the loop ends
mulmul(row1, row2, times) ==
    LET l == mulmul_loop(row1, row2, <<>>, 0, times)
    IN  [row |-> shrink_to_fit_raw(l.row), cntr |-> l.cntr]

mul(factor1, factor2) == mulmul(factor1, factor2, 1).row

\* the `for &num in mcand` loop of product and its final push, as product_loop
RECURSIVE product_loop_obs(_, _, _, _, _, _)
product_loop_obs(mpler, mcand, inx, takeover, product_row, obs) ==
    IF inx >= Len(mcand)
    THEN [row |-> IF takeover # 0 THEN Append(product_row, takeover) ELSE product_row,
          obs |-> obs]
    ELSE LET prod == mpler * mcand[inx + 1]
             o == ones(prod % U8, takeover)
         IN  product_loop_obs(mpler, mcand, inx + 1, o.tens,
                 Append(product_row, o.place),
                 [obs EXCEPT
                     !.ones = @ \cup {<<"product", prod, takeover, o.place, o.tens>>}])

\* fn product, as product
product_obs(mpler, mcand, product_row, obs) ==
    product_loop_obs(mpler, mcand, 0, 0, product_row, obs)

\* the `for offset in 0..mpler_len` loop of mulmul, as mulmul_offsets;
\* i_product_cap and i_sum_cap are the capacities reserved before the loop
RECURSIVE mulmul_offsets_obs(_, _, _, _, _, _, _)
mulmul_offsets_obs(mpler, mcand, i_sum, offset, i_product_cap, i_sum_cap, obs) ==
    IF offset >= Len(mpler)
    THEN [row |-> i_sum, obs |-> obs]
    ELSE LET p == product_obs(mpler[offset + 1], mcand, <<>>, obs)
             s == addition_obs(p.row, None, i_sum, offset, p.obs)
         IN  mulmul_offsets_obs(mpler, mcand, s.sum, offset + 1,
                 i_product_cap, i_sum_cap,
                 [s.obs EXCEPT
                     !.lens = @ \cup {<<"i_product", Len(p.row), i_product_cap>>,
                                      <<"i_sum", Len(s.sum), i_sum_cap>>}])

\* the outer `loop` of mulmul that reserves `mcand_len` places for i_sum:
\* `i_sum.reserve(mcand_len)`
RECURSIVE mulmul_loop_obs_reserve(_, _, _, _, _, _)
mulmul_loop_obs_reserve(mpler, mcand, i_sum, cntr, times, obs) ==
    LET mcand_len == Len(mcand)
        s == mulmul_offsets_obs(mpler, mcand, i_sum, 0,
                                mcand_len + 1, mcand_len, obs)
        cntr2 == (cntr + 1) % U16
    IN  IF cntr2 = times
        THEN [row |-> s.row, cntr |-> cntr2, obs |-> s.obs]
        ELSE mulmul_loop_obs_reserve(mpler, s.row, <<>>, cntr2, times, s.obs)

\* the outer `loop` of mulmul, as mulmul_loop: `i_product.reserve(mcand_len + 1)`
\* and `i_sum.reserve(mcand_len + mpler_len)` on buffers that are empty then
RECURSIVE mulmul_loop_obs(_, _, _, _, _, _)
mulmul_loop_obs(mpler, mcand, i_sum, cntr, times, obs) ==
    LET mcand_len == Len(mcand)
        mpler_len == Len(mpler)
        s == mulmul_offsets_obs(mpler, mcand, i_sum, 0,
                                mcand_len + 1, mcand_len + mpler_len, obs)
        cntr2 == (cntr + 1) % U16
    IN  IF cntr2 = times
        THEN [row |-> s.row, cntr |-> cntr2, obs |-> s.obs]
        ELSE mulmul_loop_obs(mpler, s.row, <<>>, cntr2, times, s.obs)

\* fn mulmul, as mulmul
mulmul_obs(row1, row2, times) ==
    LET l == mulmul_loop_obs(row1, row2, <<>>, 0, times, NoObs)
    IN  [row |-> shrink_to_fit_raw(l.row), cntr |-> l.cntr, obs |-> l.obs]

\* pub fn pow, as pow
pow_obs(base, exp) ==
    IF exp = 0 THEN [row |-> <<1>>, cntr |-> 0, obs |-> NoObs]
    ELSE IF exp = 1 THEN [row |-> base, cntr |-> 0, obs |-> NoObs]
         ELSE mulmul_obs(base, base, exp - 1)

\* pow that hands the exponent itself to mulmul: `mulmul(row, row, pow)`
pow_times_exp(base, exp) ==
    IF exp = 0 THEN [row |-> <<1>>, cntr |-> 0]
    ELSE IF exp = 1 THEN [row |-> base, cntr |-> 0]
         ELSE mulmul(base, base, exp)

\* pub fn pow(base, pow: u16); cntr is 0 when mulmul is not entered
pow(base, exp) ==
    IF exp = 0 THEN [row |-> <<1>>, cntr |-> 0]
    ELSE IF exp = 1 THEN [row |-> base, cntr |-> 0]
         ELSE mulmul(base, base, exp - 1)

(***************************************************************************)
(* Column subtraction with the optional remainder loop.                    *)
(***************************************************************************)
\* substraction's pass that never borrows from the next place:
\* takeover stays 0
RECURSIVE substraction_pass_no_takeover(_, _, _, _, _, _)
substraction_pass_no_takeover(minuend, subtrahend, buf, populated, inx, takeover) ==
    IF inx >= Len(minuend)
    THEN [row |-> buf, borrow |-> 0]
    ELSE IF inx >= Len(subtrahend) /\ populated
         THEN [row |-> buf, borrow |-> 0]
         ELSE LET s_num == IF inx < Len(subtrahend) THEN subtrahend[inx + 1] ELSE 0
                  m_read == IF populated THEN buf[inx + 1] ELSE minuend[inx + 1]
                  m_num == IF m_read < s_num THEN (m_read + 10) % U8 ELSE m_read
              IN  substraction_pass_no_takeover(minuend, subtrahend,
                      [buf EXCEPT ![inx + 1] = (m_num - s_num) % U8],
                      populated, inx + 1, 0)

\* the `while inx < minuend_len` loop of substraction; buf is diffrem and
\* populated is diffrem_populated.  minuend_ptr points at minuend until
\* diffrem_populated and at diffrem's buffer afterwards; diffrem is never
\* reallocated inside the loop, so a read through it yields the place diffrem
\* holds then.
RECURSIVE substraction_pass(_, _, _, _, _, _)
substraction_pass(minuend, subtrahend, buf, populated, inx, takeover) ==
    IF inx >= Len(minuend)
    THEN [row |-> buf, borrow |-> takeover]
    ELSE IF inx >= Len(subtrahend) /\ takeover = 0 /\ populated
         THEN [row |-> buf, borrow |-> takeover]
         ELSE LET s_num == IF inx < Len(subtrahend) THEN subtrahend[inx + 1] ELSE 0
                  m_read == IF populated
                            THEN buf[inx + 1]
                            ELSE minuend[inx + 1]
                  total_s == (s_num + takeover) % U8
                  borrow == m_read < total_s
                  m_num == IF borrow THEN (m_read + 10) % U8 ELSE m_read
              IN  substraction_pass(minuend, subtrahend,
                      [buf EXCEPT ![inx + 1] = (m_num - total_s) % U8],
                      populated, inx + 1, IF borrow THEN 1 ELSE 0)

\* the overrun correction that adds place to place and drops the takeover:
\* `takeover = 0` inside the loop
RECURSIVE substraction_correction_no_takeover(_, _, _, _)
substraction_correction_no_takeover(subtrahend, buf, inx, takeover) ==
    IF inx >= Len(subtrahend)
    THEN buf
    ELSE LET correction == (buf[inx + 1] + subtrahend[inx + 1]) % U8
             o == ones(correction, 0)
         IN  substraction_correction_no_takeover(subtrahend,
                 [buf EXCEPT ![inx + 1] = o.place], inx + 1, 0)

\* the `while inx < subtrahend_len` loop of the overrun correction
RECURSIVE substraction_correction(_, _, _, _)
substraction_correction(subtrahend, buf, inx, takeover) ==
    IF inx >= Len(subtrahend)
    THEN buf
    ELSE LET correction == (buf[inx + 1] + subtrahend[inx + 1]) % U8
             o == ones(correction, takeover)
         IN  substraction_correction(subtrahend,
                 [buf EXCEPT ![inx + 1] = o.place], inx + 1, o.tens)

\* the overrun correction, as substraction_correction
RECURSIVE substraction_correction_obs(_, _, _, _, _)
substraction_correction_obs(subtrahend, buf, inx, takeover, obs) ==
    IF inx >= Len(subtrahend)
    THEN [row |-> buf, obs |-> obs]
    ELSE LET correction == buf[inx + 1] + subtrahend[inx + 1]
             o == ones(correction % U8, takeover)
         IN  substraction_correction_obs(subtrahend,
                 [buf EXCEPT ![inx + 1] = o.place], inx + 1, o.tens,
                 [obs EXCEPT
                     !.ones = @ \cup {<<"correction", correction, takeover,
                                        o.place, o.tens>>}])

\* vec![0; len]
RECURSIVE vec_zeros(_)
vec_zeros(len) == IF len = 0 THEN <<>> ELSE Append(vec_zeros(len - 1), 0)

(***************************************************************************)
(* The caller's session.                                                   *)
(*   pc = "a", "b": the next constructor call yields row a, row b;         *)
(*   pc = "ready":  both rows are there, an operation can be applied;      *)
(*   pc = "substraction": sub, divrem or a direct call of substraction     *)
(*                  (op) is inside the outer loop of substraction(a, b,    *)
(*                  remainder), at its head; each turn of the loop is one  *)
(*                  step;                                                  *)
(*   pc = "done":   op was applied to a and b and res holds what it        *)
(*                  returned; a returned row can be stored into a or b;    *)
(*   pc = "end":    a constructor returned Err, or a row beyond the bounds *)
(*                  of the model, and the session ended; or the session    *)
(*                  was one direct call of addition, as the unit tests of  *)
(*                  the crate make them.                                   *)
(* diffrem, diffrem_populated and ratio are the locals of substraction;    *)
(* outside of it they hold <<>>, FALSE, <<>>.                              *)
(***************************************************************************)
\* the value a row stands for
RECURSIVE Value(_)
Value(row) == IF row = <<>> THEN 0 ELSE Head(row) + 10 * Value(Tail(row))

\* u8 places handed to new_from_vec
VecPlaces == {0, 1, 9, 10}
VecInputs == UNION {[1..k -> VecPlaces] : k \in 0..MaxVecLen}

\* rows of places handed to addition when it is called directly
Places == {0, 1, 9}
PlacesRows == UNION {[1..k -> Places] : k \in 1..MaxVecLen}

\* chars of the texts handed to new_from_str
Chars == {"0", "1", "9", "x", "e2"}
StrInputs == UNION {[1..k -> Chars] : k \in 0..MaxStrLen}

\* res when nothing was returned yet.  Besides what the call returned, res
\* keeps what it was given beyond rows a and b: vec and str are the arguments
\* of new_from_vec and new_from_str, exp the exponent of pow; text is the
\* String to_number returned.  For a direct call of addition vec is addend_1,
\* r is sum at entry, inx the offset and q is sum at return.  obs is what was
\* observed inside the call.  working and corrected are kept when a turn of
\* the loop of substraction ends with a takeover: diffrem's places of the
\* minuend of that turn, and diffrem after the correction loop, before
\* truncate_leading_raw.
NoRes == [kind |-> "none", q |-> <<>>, r |-> <<>>, rel |-> "", inx |-> 0,
          exp |-> 0, cntr |-> 0, vec |-> <<>>, str |-> <<>>, text |-> <<>>,
          obs |-> NoObs, working |-> <<>>, corrected |-> <<>>]

Init ==
    /\ pc = "a"
    /\ a = zero
    /\ b = zero
    /\ op = "none"
    /\ res = NoRes
    /\ diffrem = <<>>
    /\ diffrem_populated = FALSE
    /\ ratio = <<>>

\* the model keeps row a up to MaxA and row b up to MaxB
InBounds(target, row) == Value(row) <= (IF target = "a" THEN MaxA ELSE MaxB)

\* a constructor returned r = [ok, some, inx, row]; given is NoRes with the
\* constructor's argument
Constructed(name, r, given) ==
    /\ pc \in {"a", "b"}
    /\ op' = name
    /\ res' = [given EXCEPT !.kind = IF r.ok THEN "Ok"
                                     ELSE IF r.some THEN "ErrSome" ELSE "ErrNone",
                            !.q = r.row, !.inx = r.inx]
    /\ IF r.ok /\ InBounds(pc, r.row)
       THEN IF pc = "a"
            THEN a' = r.row /\ pc' = "b" /\ UNCHANGED b
            ELSE b' = r.row /\ pc' = "ready" /\ UNCHANGED a
       ELSE pc' = "end" /\ UNCHANGED <<a, b>>
    /\ UNCHANGED locals

NewFromVec ==
    \E row \in VecInputs :
        Constructed("new_from_vec", new_from_vec(row), [NoRes EXCEPT !.vec = row])

NewFromNum ==
    \E num \in 0..MaxA :
        Constructed("new_from_num",
                    [ok |-> TRUE, some |-> FALSE, inx |-> 0, row |-> new_from_num(num)],
                    NoRes)

NewFromStr ==
    \E s \in StrInputs :
        Constructed("new_from_str", new_from_str(s), [NoRes EXCEPT !.str = s])

Zero ==
    Constructed("zero", [ok |-> TRUE, some |-> FALSE, inx |-> 0, row |-> zero], NoRes)

\* an operation returned res2
Applied(name, res2) ==
    /\ pc = "ready"
    /\ pc' = "done"
    /\ op' = name
    /\ res' = res2
    /\ UNCHANGED <<a, b>>
    /\ UNCHANGED locals

ToNumber == Applied("to_number", [NoRes EXCEPT !.kind = "String", !.text = to_number(a)])

Rel == Applied("rel", [NoRes EXCEPT !.kind = "Rel", !.rel = rel(a, b)])

Add ==
    Applied("add", [NoRes EXCEPT !.kind = "Row", !.q = add(a, b),
                                 !.obs = add_obs(a, b).obs])

\* addition(&addend_1, None, &mut sum, offset) called directly, on rows of
\* places and an offset within sum
Addition ==
    /\ pc = "a"
    /\ \E addend_1 \in PlacesRows, sum \in PlacesRows \cup {<<>>} :
          \E offset \in 0..Len(sum) :
              LET s == addition_obs(addend_1, None, sum, offset, NoObs)
              IN  res' = [NoRes EXCEPT !.kind = "Vec", !.q = s.sum, !.vec = addend_1,
                                       !.r = sum, !.inx = offset, !.obs = s.obs]
    /\ pc' = "end"
    /\ op' = "addition"
    /\ UNCHANGED <<a, b>>
    /\ UNCHANGED locals

\* substraction is entered: its statements before the outer loop
Entered(name) ==
    /\ pc = "ready"
    /\ pc' = "substraction"
    /\ op' = name
    /\ res' = NoRes
    /\ diffrem' = vec_zeros(Len(a))
    /\ diffrem_populated' = FALSE
    /\ ratio' = <<0>>
    /\ UNCHANGED <<a, b>>

\* sub that returns None unless rel is Greater
SubNoneOnEqual ==
    IF rel(a, b) = "Greater"
    THEN Entered("sub")
    ELSE Applied("sub", [NoRes EXCEPT !.kind = "None"])

\* pub fn sub(minuend = a, subtrahend = b) -> Option<PlacesRow>
Sub ==
    LET rel_ == rel(a, b)
    IN  IF rel_ = "Lesser"
        THEN Applied("sub", [NoRes EXCEPT !.kind = "None"])
        ELSE IF rel_ = "Equal"
             THEN Applied("sub", [NoRes EXCEPT !.kind = "Row", !.q = zero])
             ELSE Entered("sub")

Mul ==
    Applied("mul", [NoRes EXCEPT !.kind = "Row", !.q = mul(a, b),
                                 !.obs = mulmul_obs(a, b, 1).obs])

Pow ==
    \E exp \in 0..MaxPow :
        LET p == pow(a, exp)
        IN  Applied("pow", [NoRes EXCEPT !.kind = "Row", !.q = p.row,
                                         !.exp = exp, !.cntr = p.cntr,
                                         !.obs = pow_obs(a, exp).obs])

\* divrem that tests the dividend for zero: `if dividend == &zero`
DivRemZeroDividend ==
    IF a = zero
    THEN Applied("divrem", [NoRes EXCEPT !.kind = "None"])
    ELSE LET rel_ == rel(a, b)
         IN  IF rel_ = "Lesser"
             THEN Applied("divrem", [NoRes EXCEPT !.kind = "Pair", !.q = zero, !.r = a])
             ELSE IF rel_ = "Equal"
                  THEN Applied("divrem",
                               [NoRes EXCEPT !.kind = "Pair", !.q = <<1>>, !.r = zero])
                  ELSE Entered("divrem")

\* pub fn divrem(dividend = a, divisor = b) -> Option<(PlacesRow, PlacesRow)>;
\* res.q is the ratio, res.r the remainder
DivRem ==
    IF b = zero
    THEN Applied("divrem", [NoRes EXCEPT !.kind = "None"])
    ELSE LET rel_ == rel(a, b)
         IN  IF rel_ = "Lesser"
             THEN Applied("divrem", [NoRes EXCEPT !.kind = "Pair", !.q = zero, !.r = a])
             ELSE IF rel_ = "Equal"
                  THEN Applied("divrem",
                               [NoRes EXCEPT !.kind = "Pair", !.q = <<1>>, !.r = zero])
                  ELSE Entered("divrem")

\* substraction(&a, &b, true) called directly, as the unit tests of the crate
\* call it, with a minuend not less than the subtrahend and a subtrahend above
\* zero; res.q is the ratio, res.r the remainder
Remainder ==
    /\ b # zero
    /\ rel(a, b) # "Lesser"
    /\ Entered("substraction")

\* the `remainder` argument of the call of substraction that is running
remainder == op \in {"divrem", "substraction"}

\* substraction returns (diffrem2, ratio2) after its final shrink_to_fit_raw,
\* and sub or divrem wraps what it returned; seen is res with what the last
\* turn added to it
Returns(diffrem2, ratio2, seen) ==
    /\ pc' = "done"
    /\ res' = IF remainder
              THEN [seen EXCEPT !.kind = "Pair", !.q = ratio2,
                                !.r = shrink_to_fit_raw(diffrem2)]
              ELSE [seen EXCEPT !.kind = "Row", !.q = shrink_to_fit_raw(diffrem2)]
    /\ diffrem' = <<>>
    /\ diffrem_populated' = FALSE
    /\ ratio' = <<>>

\* the turn of the loop with `addition(&one, None, &mut ratio, 0)` ahead of
\* the `if takeover == 1` block
SubstractionRatioFirst ==
    /\ pc = "substraction"
    /\ LET p == substraction_pass(a, b, diffrem, diffrem_populated, 0, 0)
           corrected == substraction_correction(b, p.row, 0, 0)
           ratio2 == addition(<<1>>, None, ratio, 0)
           seen == [res EXCEPT !.obs = addition_obs(<<1>>, None, ratio, 0, @).obs]
       IN  IF p.borrow = 1
           THEN Returns(truncate_leading_raw(corrected, 9), ratio2,
                        [seen EXCEPT
                            !.obs = substraction_correction_obs(b, p.row, 0, 0, @).obs,
                            !.working = IF diffrem_populated THEN diffrem ELSE a,
                            !.corrected = corrected])
           ELSE IF ~remainder
                THEN Returns(p.row, ratio2, seen)
                ELSE /\ diffrem' = p.row
                     /\ diffrem_populated' = TRUE
                     /\ ratio' = ratio2
                     /\ res' = seen
                     /\ UNCHANGED pc
    /\ UNCHANGED <<a, b, op>>

\* one turn of the outer `loop` of substraction(minuend = a, subtrahend = b,
\* remainder), with the function's tail when the turn breaks
Substraction ==
    /\ pc = "substraction"
    /\ LET p == substraction_pass(a, b, diffrem, diffrem_populated, 0, 0)
           corrected == substraction_correction(b, p.row, 0, 0)
           ratio2 == addition(<<1>>, None, ratio, 0)
       IN  IF p.borrow = 1
           THEN Returns(truncate_leading_raw(corrected, 9), ratio,
                        [res EXCEPT
                            !.obs = substraction_correction_obs(b, p.row, 0, 0, @).obs,
                            !.working = IF diffrem_populated THEN diffrem ELSE a,
                            !.corrected = corrected])
           ELSE LET seen == [res EXCEPT
                                !.obs = addition_obs(<<1>>, None, ratio, 0, @).obs]
                IN  IF ~remainder
                    THEN Returns(p.row, ratio2, seen)
                    ELSE /\ diffrem' = p.row
                         /\ diffrem_populated' = TRUE
                         /\ ratio' = ratio2
                         /\ res' = seen
                         /\ UNCHANGED pc
    /\ UNCHANGED <<a, b, op>>

\* the rows res holds
Returned ==
    IF res.kind = "Row" THEN {res.q}
    ELSE IF res.kind = "Pair" THEN {res.q, res.r} ELSE {}

\* a returned row becomes row a or row b of the next operation
Store ==
    /\ pc = "done"
    /\ \E row \in Returned, target \in {"a", "b"} :
          /\ InBounds(target, row)
          /\ IF target = "a"
             THEN a' = row /\ UNCHANGED b
             ELSE b' = row /\ UNCHANGED a
    /\ pc' = "ready"
    /\ op' = "store"
    /\ res' = NoRes
    /\ UNCHANGED locals

Next ==
    \/ NewFromVec
    \/ NewFromNum
    \/ NewFromStr
    \/ Zero
    \/ ToNumber
    \/ Rel
    \/ Add
    \/ Addition
    \/ Sub
    \/ Mul
    \/ Pow
    \/ DivRem
    \/ Remainder
    \/ Substraction
    \/ Store

Spec == Init /\ [][Next]_vars

(***************************************************************************)
(* The remainder loop on its own: substraction(&a, &b, true) is called on  *)
(* any two normalized rows within the bounds, and the call runs on: once   *)
(* inside the loop it takes its next turn.  LoopFairness is                *)
(* WF_vars(Substraction) with ENABLED <<Substraction>>_vars written as the *)
(* state predicate it amounts to: a turn can be taken exactly when pc is   *)
(* "substraction", and it changes ratio or pc.                             *)
(***************************************************************************)
LoopInit ==
    /\ pc = "ready"
    /\ a \in {new_from_num(num) : num \in 0..MaxA}
    /\ b \in {new_from_num(num) : num \in 0..MaxB}
    /\ op = "none"
    /\ res = NoRes
    /\ diffrem = <<>>
    /\ diffrem_populated = FALSE
    /\ ratio = <<>>

LoopNext ==
    \/ Remainder
    \/ Substraction

LoopFairness == []<>(pc # "substraction") \/ []<><<Substraction>>_vars

LoopSpec == LoopInit /\ [][LoopNext]_vars /\ LoopFairness

(***************************************************************************)
(* Properties.                                                             *)
(***************************************************************************)
\* a row is non-empty, its places are decimal digits, and its last place is
\* not 0 unless the row is <<0>>
IsNormalized(row) ==
    /\ Len(row) >= 1
    /\ \A i \in 1..Len(row) : row[i] \in 0..9
    /\ row[Len(row)] # 0 \/ row = <<0>>

RECURSIVE Power(_, _)
Power(x, n) == IF n = 0 THEN 1 ELSE x * Power(x, n - 1)

\* C1: whenever divrem(a, b) has returned for a divisor b other than the zero
\* row, it returned Some((q, r)) with value(b) * value(q) + value(r) = value(a)
\* and r less than b, by value and by rel.
C1_DivisionIdentity ==
    (pc = "done" /\ op = "divrem" /\ b # zero)
        => /\ res.kind = "Pair"
           /\ Value(b) * Value(res.q) + Value(res.r) = Value(a)
           /\ Value(res.r) < Value(b)
           /\ rel(res.r, b) = "Lesser"

\* C2: divrem(a, b) returns None exactly when b is the zero row and Some
\* otherwise; the remainder loop is never entered with the zero row as
\* divisor, and the ratio it counts never exceeds value(a) / value(b), so the
\* loop ends and divrem returns.
C2_NoneIffZeroDivisor ==
    /\ (pc = "done" /\ op = "divrem")
           => /\ res.kind \in {"None", "Pair"}
              /\ res.kind = "None" <=> b = zero
    /\ (pc = "substraction" /\ op = "divrem")
           => /\ b # zero
              /\ Value(ratio) * Value(b) <= Value(a)

\* divrem has returned None for a three-place dividend
C2_Witness ==
    pc = "done" /\ op = "divrem" /\ b = zero /\ Len(a) = 3 /\ res.kind = "None"

\* C3: sub(a, b) returns None exactly when value(a) < value(b); otherwise it
\* returns Some of the normalized row of value(a) - value(b).
C3_SubDifference ==
    (pc = "done" /\ op = "sub")
        => IF Value(a) < Value(b)
           THEN res.kind = "None"
           ELSE /\ res.kind = "Row"
                /\ IsNormalized(res.q)
                /\ Value(res.q) = Value(a) - Value(b)

\* sub has returned a difference that is two places shorter than the minuend,
\* the subtrahend having two places
C3_Witness ==
    /\ pc = "done" /\ op = "sub" /\ res.kind = "Row"
    /\ Len(a) = 3 /\ Len(b) = 2 /\ Len(res.q) = 1

\* C4: when value(a) >= value(b), sub(a, b) is Some(d) and add(d, b) is a.
C4_SubAddInverse ==
    (pc = "done" /\ op = "sub" /\ Value(a) >= Value(b))
        => /\ res.kind = "Row"
           /\ add(res.q, b) = a

\* sub has returned a two-place difference whose sum with the subtrahend takes
\* a third place
C4_Witness ==
    /\ pc = "done" /\ op = "sub" /\ res.kind = "Row"
    /\ Len(res.q) = 2 /\ Len(b) = 2 /\ Len(a) = 3

\* C5: add(a, b) and add(b, a) are equal rows, and add(a, zero) is a.
C5_AddCommutes ==
    (pc = "done" /\ op = "add")
        => /\ res.q = add(b, a)
           /\ b = zero => res.q = a

\* add has returned for two different addends of the same length
C5_Witness ==
    /\ pc = "done" /\ op = "add"
    /\ Len(a) = 2 /\ Len(b) = 2 /\ a # b /\ Len(res.q) = 3

\* C6: add(a, b) is the row of the decimal digits, ones first, of
\* value(a) + value(b).
C6_AddValue ==
    (pc = "done" /\ op = "add")
        => /\ IsNormalized(res.q)
           /\ Value(res.q) = Value(a) + Value(b)

\* add has returned a row one place longer than the longer addend
C6_Witness ==
    /\ pc = "done" /\ op = "add"
    /\ Len(a) > Len(b) /\ Len(res.q) = Len(a) + 1

\* C7: mul(a, b) is the normalized row of value(a) * value(b); mul(a, one) is
\* a, and mul(a, zero) and mul(zero, b) are <<0>>.
C7_MulValue ==
    (pc = "done" /\ op = "mul")
        => /\ IsNormalized(res.q)
           /\ Value(res.q) = Value(a) * Value(b)
           /\ b = <<1>> => res.q = a
           /\ (a = zero \/ b = zero) => res.q = <<0>>

\* mul has returned <<0>> for a three-place row times the zero row
C7_Witness ==
    pc = "done" /\ op = "mul" /\ Len(a) = 3 /\ b = zero /\ res.q = <<0>>

\* C8: pow(a, n) is the normalized row of value(a) to the n: <<1>> for n = 0,
\* a for n = 1, and for n >= 2 the loop of mulmul ends with its counter at
\* n - 1.
C8_PowValue ==
    (pc = "done" /\ op = "pow")
        => /\ IsNormalized(res.q)
           /\ Value(res.q) = Power(Value(a), res.exp)
           /\ res.exp = 0 => res.q = <<1>>
           /\ res.exp = 1 => res.q = a
           /\ res.exp >= 2 => res.cntr = res.exp - 1

\* pow has returned the cube of a three-place row after two turns of the loop
C8_Witness ==
    /\ pc = "done" /\ op = "pow" /\ res.exp = 3 /\ res.cntr = 2
    /\ Len(a) = 3 /\ Len(res.q) > 6

\* C9: rows a and b, every row a constructor returned in Ok and every row an
\* operation returned are normalized.
C9_Normalized ==
    /\ IsNormalized(a)
    /\ IsNormalized(b)
    /\ res.kind = "Ok" => IsNormalized(res.q)
    /\ \A row \in Returned : IsNormalized(row)

\* divrem has returned a one-place ratio and a one-place remainder for a
\* three-place dividend and a two-place divisor
C9_Witness ==
    /\ pc = "done" /\ op = "divrem" /\ res.kind = "Pair"
    /\ Len(a) = 3 /\ Len(b) = 2 /\ res.q = <<1>> /\ res.r = <<1>>

\* C10: rel(a, b) is Greater, Equal, Lesser exactly when value(a) is greater
\* than, equal to, less than value(b).
C10_RelValue ==
    (pc = "done" /\ op = "rel")
        => /\ res.rel = "Greater" <=> Value(a) > Value(b)
           /\ res.rel = "Equal" <=> Value(a) = Value(b)
           /\ res.rel = "Lesser" <=> Value(a) < Value(b)

\* rel has returned for rows of equal length that differ in the ones and in
\* the tens, the ones deciding the other way
C10_Witness ==
    /\ pc = "done" /\ op = "rel" /\ Len(a) = 2 /\ Len(b) = 2
    /\ a[2] < b[2] /\ a[1] > b[1] /\ res.rel = "Lesser"

\* the decimal numeral of n, without leading zeros
RECURSIVE Decimal(_)
Decimal(n) ==
    LET numerals == <<"0", "1", "2", "3", "4", "5", "6", "7", "8", "9">>
    IN  IF n < 10 THEN <<numerals[n + 1]>>
        ELSE Append(Decimal(n \div 10), numerals[(n % 10) + 1])

\* C11: to_number of new_from_num(n) is the decimal numeral of n without
\* leading zeros, and new_from_str of what to_number returned for a normalized
\* row is Ok of a row equal to that row.
C11_TextRoundTrip ==
    (pc = "done" /\ op = "to_number")
        => /\ \A n \in 0..MaxA : a = new_from_num(n) => res.text = Decimal(n)
           /\ IsNormalized(a)
                  => LET back == new_from_str(res.text)
                     IN  back.ok /\ back.row = a

\* to_number has returned for the row of 190, whose ones place is 0
C11_Witness ==
    /\ pc = "done" /\ op = "to_number"
    /\ a = new_from_num(190) /\ res.text = <<"1", "9", "0">>

\* C12: new_from_vec returns Err(None) for an empty vector, Err(Some(i)) with
\* i the lowest index of a place above 9 when there is one, and otherwise Ok
\* of the places with the most-significant zeros removed, an all-zero vector
\* becoming [0].
C12_NewFromVec ==
    (op = "new_from_vec")
        => LET v == res.vec
               q == res.q
           IN  IF v = <<>> THEN res.kind = "ErrNone"
               ELSE IF \E i \in 1..Len(v) : v[i] > 9
                    THEN /\ res.kind = "ErrSome"
                         /\ res.inx < Len(v)
                         /\ v[res.inx + 1] > 9
                         /\ \A j \in 1..res.inx : v[j] <= 9
                    ELSE /\ res.kind = "Ok"
                         /\ Len(q) >= 1 /\ Len(q) <= Len(v)
                         /\ q = SubSeq(v, 1, Len(q))
                         /\ \A i \in (Len(q) + 1)..Len(v) : v[i] = 0
                         /\ Len(q) = 1 \/ q[Len(q)] # 0

\* new_from_vec has returned Err(Some(1)) for a vector with places above 9 at
\* indices 1 and 2
C12_Witness ==
    /\ op = "new_from_vec" /\ res.vec = <<1, 10, 10>>
    /\ res.kind = "ErrSome" /\ res.inx = 1

\* C13: new_from_str returns Err(None) for the empty text, Err(Some(i)) with i
\* the index in the text at which a char that is no digit stands (as byte
\* offset or as char count, leading zeros counted) when the text holds such a
\* char, and Ok for a non-empty text of digits only.
C13_NewFromStr ==
    (op = "new_from_str")
        => LET s == res.str
           IN  IF s = <<>> THEN res.kind = "ErrNone"
               ELSE IF \E k \in 1..Len(s) : ~is_ascii_digit(s[k])
                    THEN /\ res.kind = "ErrSome"
                         /\ \E k \in 1..Len(s) :
                               /\ ~is_ascii_digit(s[k])
                               /\ \/ res.inx = k - 1
                                  \/ res.inx = str_len(SubSeq(s, 1, k - 1))
                    ELSE res.kind = "Ok"

\* the greater of two numbers
Max(x, y) == IF x > y THEN x ELSE y

\* C14: no accumulator outgrows the capacity reserved for it: in add, sum
\* never holds more than len(longer addend) + 1 places; in every outer turn
\* of mulmul, for mul and for pow, i_product never holds more than
\* len(mcand) + 1 places and i_sum never more than len(mcand) + len(mpler).
C14_WithinReserved ==
    (pc = "done" /\ op \in {"add", "mul", "pow"})
        => /\ \A e \in res.obs.lens : e[2] <= e[3]
           /\ op = "add"
                  => \A e \in res.obs.lens : e[3] = Max(Len(a), Len(b)) + 1

\* pow with exponent 3 has returned after two outer turns of mulmul in which
\* i_product and i_sum each filled what was reserved for them
C14_Witness ==
    /\ pc = "done" /\ op = "pow" /\ res.exp = 3 /\ res.cntr = 2
    /\ \E e \in res.obs.lens : e[1] = "i_product" /\ e[2] = e[3]
    /\ \E e \in res.obs.lens : e[1] = "i_sum" /\ e[2] = e[3]

\* C15: after every call of addition that adds an addend into an accumulator
\* holding `existing` places at an offset not above len(existing), the
\* accumulator holds at most max(len(addend), len(existing) + offset) + 1
\* places.
C15_AdditionLength ==
    \A e \in res.obs.adds :
        e[3] <= e[2] => e[4] <= Max(e[1], e[2] + e[3]) + 1

\* C15, amended: under the same condition the accumulator holds at most
\* max(len(addend) + offset, len(existing)) + 1 places.
C15_AdditionLengthAmended ==
    \A e \in res.obs.adds :
        e[3] <= e[2] => e[4] <= Max(e[1] + e[3], e[2]) + 1

\* addition has added [9, 9, 9] into [1, 9] at offset 1 and the accumulator
\* holds five places
C15_Witness ==
    /\ op = "addition" /\ res.vec = <<9, 9, 9>> /\ res.r = <<1, 9>> /\ res.inx = 1
    /\ Len(res.q) = 5 /\ <<3, 2, 1, 5>> \in res.obs.adds

\* C16: in the remainder loop, entered with value(a) >= value(b) > 0, every
\* pass that ends without a borrow adds exactly one to the ratio and the loop
\* goes on, the first pass that ends with a borrow ends the loop, the ratio
\* returned then is the normalized row of floor(value(a) / value(b)), and the
\* loop is left for good.
C16_RemainderLoop ==
    /\ [][(pc = "substraction" /\ remainder)
            => LET p == substraction_pass(a, b, diffrem, diffrem_populated, 0, 0)
               IN  IF p.borrow = 0
                   THEN /\ pc' = "substraction"
                        /\ Value(ratio') = Value(ratio) + 1
                   ELSE /\ pc' = "done"
                        /\ res'.q = ratio
                        /\ IsNormalized(ratio)
                        /\ Value(ratio) = Value(a) \div Value(b)]_vars
    /\ (pc = "substraction" /\ remainder) ~> (pc = "done")

\* the remainder loop has returned the two-place ratio 10 for a two-place
\* subtrahend, after ten passes without a borrow and one with
C16_Witness ==
    /\ pc = "done" /\ remainder /\ res.kind = "Pair"
    /\ Len(b) = 2 /\ res.q = <<0, 1>>

\* C17: when a pass of the remainder loop ends with a borrow, after the
\* correction loop and before the truncation the lowest len(b) places of
\* diffrem are the places of the working value before that pass, which has no
\* place above them, and every place from len(b) on is 9.
C17_OverrunCorrection ==
    (pc = "done" /\ remainder /\ res.corrected # <<>>)
        => /\ Len(res.corrected) = Len(a)
           /\ Len(res.working) = Len(a)
           /\ \A i \in 1..Len(a) :
                 IF i <= Len(b)
                 THEN res.corrected[i] = res.working[i]
                 ELSE res.working[i] = 0 /\ res.corrected[i] = 9

\* divrem has returned after an overrun on a three-place dividend and a
\* two-place divisor, the working value before the overrun having two places
C17_Witness ==
    /\ pc = "done" /\ op = "divrem" /\ Len(a) = 3 /\ Len(b) = 2
    /\ Len(res.corrected) = 3 /\ res.corrected[3] = 9
    /\ res.working[1] # 0 /\ res.working[2] # 0

\* C18: in every call of ones made while add, sub, mul, pow or divrem runs,
\* the takeover found and the takeover left are 0 or 1 in the passes of
\* addition and of the overrun correction and at most 8 in the passes of
\* product, num plus takeover is at most 89, the place returned is that total
\* mod 10 and the takeover left is that total div 10.
C18_OnesCalls ==
    (op \in {"add", "sub", "mul", "pow", "divrem"})
        => \A c \in res.obs.ones :
              LET total == c[2] + c[3]
              IN  /\ c[1] \in {"addition", "correction"}
                         => c[3] \in {0, 1} /\ c[5] \in {0, 1}
                  /\ c[1] = "product" => c[3] \in 0..8 /\ c[5] \in 0..8
                  /\ total <= 89
                  /\ c[4] = total % 10
                  /\ c[5] = total \div 10

\* pow has returned after product called ones with 9 * 9 and a takeover of 8,
\* and addition called it with a takeover of 1
C18_Witness ==
    /\ pc = "done" /\ op = "pow"
    /\ <<"product", 81, 8, 9, 8>> \in res.obs.ones
    /\ \E c \in res.obs.ones : c[1] = "addition" /\ c[3] = 1

\* C19: when addition runs with the accumulator as its own second addend,
\* every read through the pointer taken at entry is at an index below the
\* accumulator's length at entry and no push precedes it.
C19_ReadsBeforePush ==
    \A e \in res.obs.reads : e[1] < e[2] /\ e[3] = 0

\* pow has returned 99 * 99: addition read the places of i_sum at offset 1
\* below its length at entry, 3, and pushed a fourth place afterwards
C19_Witness ==
    /\ pc = "done" /\ op = "pow" /\ a = <<9, 9>> /\ res.exp = 2
    /\ <<1, 3, 0>> \in res.obs.reads /\ <<2, 3, 0>> \in res.obs.reads
    /\ Len(res.q) = 4

====
